---- MODULE Spec2Model ----
(***************************************************************************)
(* raygen9: generator of the Omaha 7/8/9-card lookup table HR.             *)
(*                                                                         *)
(* A 64-bit ID holds nine 7-bit card slots.  It is kept here as three      *)
(* 21-bit limbs <<high, middle, low>> (slots 8..6, 5..3, 2..0), so that    *)
(* every shift, mask and comparison of the source is integer arithmetic    *)
(* on numbers that fit the checker's integers.                             *)
(*                                                                         *)
(* The deck is cut down to NumRanks ranks of four suits (cards             *)
(* 1..4*NumRanks); the loops of the source that run to card 52 run to      *)
(* MaxCard, and the 53 inputs of a block (the skip input 0 and the 52       *)
(* cards) are the NumSlots = MaxCard + 1 inputs of the model.  With        *)
(* NumRanks = 13 every number is the source's.                             *)
(***************************************************************************)
EXTENDS Integers, Sequences, FiniteSets, TLC

\* ranks per suit in the deck of the model (the source has 13)
NumRanks == 5
MaxCard == 4 * NumRanks
\* inputs of a block: 53 in the source, the skip input 0 and the 52 cards
NumSlots == MaxCard + 1

ANY_CARD == 1
SKIP_BOARD == 53
n_pocket_perms == 6

pocket_perms == << <<0, 1>>, <<0, 2>>, <<0, 3>>, <<1, 2>>, <<1, 3>>, <<2, 3>> >>
board_perms == << <<0, 1, 2>>,
                  <<0, 1, 3>>, <<0, 2, 3>>, <<1, 2, 3>>,
                  <<0, 1, 4>>, <<0, 2, 4>>, <<0, 3, 4>>, <<1, 2, 4>>, <<1, 3, 4>>, <<2, 3, 4>> >>

MIN(a, b) == IF a < b THEN a ELSE b
MAX(a, b) == IF a > b THEN a ELSE b

----------------------------------------------------------------------------
(* int64_t as three limbs *)

Zero64 == <<0, 0, 0>>

\* (id >> (7 * i)) & 0x7F
Slot(id, i) == (id[3 - (i \div 3)] \div (128 ^ (i % 3))) % 128

\* a < b on int64_t
Less64(a, b) ==
    \/ a[1] < b[1]
    \/ a[1] = b[1] /\ a[2] < b[2]
    \/ a[1] = b[1] /\ a[2] = b[2] /\ a[3] < b[3]

\* (a variant that leaves the array as it is)
Unreversed(s) == s
\* std::reverse of an int array of up to 5 entries
Reverse(s) ==
    CASE Len(s) = 5 -> <<s[5], s[4], s[3], s[2], s[1]>>
      [] Len(s) = 4 -> <<s[4], s[3], s[2], s[1]>>
      [] Len(s) = 3 -> <<s[3], s[2], s[1]>>
      [] Len(s) = 2 -> <<s[2], s[1]>>
      [] OTHER -> s
\* std::sort of an int array of up to 5 entries, ascending
SortAsc(s) == SortSeq(s, LAMBDA a, b : a < b)
\* an int array of n entries, zero after the entries of s
Pad(s, n) == s \o SubSeq(<<0, 0, 0, 0, 0>>, 1, n - Len(s))
Count(s, n, P(_)) == Cardinality({i \in 1..n : P(s[i])})

\* (a variant that does not count the skip sentinel)
count_cards_real(id) ==
    Cardinality({i \in 0..8 : Slot(id, i) # 0 /\ Slot(id, i) # SKIP_BOARD})
count_cards(id) == Cardinality({i \in 0..8 : Slot(id, i) # 0})

\* the arrays and counters shared by the card-adding functions
add_card(new_card, h) ==
    IF h.n_board < 5
    THEN [h EXCEPT !.board[h.n_board + 1] = new_card, !.n_board = h.n_board + 1]
    ELSE [h EXCEPT !.pocket[h.n_pocket + 1] = new_card, !.n_pocket = h.n_pocket + 1]

\* if (card != 0)
NonZero(card) == card # 0
unpack64(id) ==
    LET b == SelectSeq(<<Slot(id, 0), Slot(id, 1), Slot(id, 2), Slot(id, 3), Slot(id, 4)>>,
                       NonZero)
        p == SelectSeq(<<Slot(id, 5), Slot(id, 6), Slot(id, 7), Slot(id, 8)>>, NonZero)
    IN [pocket |-> Pad(p, 4), board |-> Pad(b, 5), n_pocket |-> Len(p), n_board |-> Len(b)]

\* the slots 0..4 take the board, the slots 5..8 the pocket
pack_slots(p, b) ==
    << p[2] + p[3] * 128 + p[4] * 16384,
       b[4] + b[5] * 128 + p[1] * 16384,
       b[1] + b[2] * 128 + b[3] * 16384 >>
pack64(pocket, board) == pack_slots(Reverse(SortAsc(pocket)), Reverse(SortAsc(board)))
\* return pack64(pocket, board) of the card-adding functions
pack_hand(h) == pack64(h.pocket, h.board)

skip_board(board) ==
    LET t == SelectSeq(board, LAMBDA c : c # SKIP_BOARD)
    IN [board |-> Pad(t, 5), n_board |-> Len(t)]

----------------------------------------------------------------------------
(* Five-card scores: the Cactus Kev tables (flushes, unique5, values with   *)
(* cactus_findit) and cactus_to_ray are not part of the source file; they   *)
(* are written from their contract, the canonical rank 1..7462 of a 5-card  *)
(* hand (1 is best), ranks being 0..12 for deuce..ace.                      *)

RECURSIVE Binom(_, _)
Binom(n, k) == IF k = 0 THEN 1 ELSE IF n < k THEN 0 ELSE (Binom(n - 1, k - 1) * n) \div k

RECURSIVE ColexSum(_, _)
ColexSum(S, T) ==
    IF T = {} THEN 0
    ELSE LET x == CHOOSE y \in T : TRUE
         IN Binom(x, 1 + Cardinality({y \in S : y < x})) + ColexSum(S, T \ {x})
\* rank of a set of ranks in the order that compares the highest rank first
Colex(S) == ColexSum(S, S)

Straights == {{h - 4, h - 3, h - 2, h - 1, h} : h \in 4..12} \cup {{0, 1, 2, 3, 12}}
StraightPos(S) == IF S = {0, 1, 2, 3, 12} THEN 9
                  ELSE 12 - (CHOOSE x \in S : \A y \in S : y <= x)
\* place of five distinct ranks among the 1277 sets that are no straight
HighPos(S) == (1286 - Colex(S)) - Cardinality({T \in Straights : Colex(T) > Colex(S)})
\* place of rank k among the ranks outside Ex, highest first
KPos(k, Ex) == Cardinality({r \in 0..12 : r > k /\ r \notin Ex})
\* the kickers K renumbered with rank x left out
Without(K, x) == {IF k > x THEN k - 1 ELSE k : k \in K}

flushes(S) ==
    IF Cardinality(S) # 5 THEN 0
    ELSE IF S \in Straights THEN 1 + StraightPos(S)
    ELSE 323 + HighPos(S)

unique5(S) ==
    IF Cardinality(S) # 5 THEN 0
    ELSE IF S \in Straights THEN 1600 + StraightPos(S)
    ELSE 6186 + HighPos(S)

\* values[cactus_findit(product of the five primes)]: hands with a repeated rank
values_findit(rs) ==
    LET D == {rs[i] : i \in 1..5}
        n(r) == Cardinality({i \in 1..5 : rs[i] = r})
        Of(m) == {r \in D : n(r) = m}
        One(m) == CHOOSE r \in Of(m) : TRUE
    IN IF Of(4) # {} THEN 11 + (12 - One(4)) * 12 + KPos(One(1), {One(4)})
       ELSE IF Of(3) # {} /\ Of(2) # {} THEN 167 + (12 - One(3)) * 12 + KPos(One(2), {One(3)})
       ELSE IF Of(3) # {} THEN 1610 + (12 - One(3)) * 66 + (65 - Colex(Without(Of(1), One(3))))
       ELSE IF Cardinality(Of(2)) = 2 THEN 2468 + (77 - Colex(Of(2))) * 11 + KPos(One(1), Of(2))
       ELSE IF Of(2) # {} THEN 3326 + (12 - One(2)) * 220 + (219 - Colex(Without(Of(1), One(2))))
       ELSE 0

cactus_to_ray(q) == 7463 - q

\* reference score of five real cards (the 7-card table HR_old read for 5 cards)
Suit(c) == ((c - 1) % 4) + 1
Rank(c) == (c - 1) \div 4
oracle5(cs) ==
    LET rs == [i \in 1..5 |-> Rank(cs[i])]
        S == {rs[i] : i \in 1..5}
    IN cactus_to_ray(IF \A i \in 2..5 : Suit(cs[i]) = Suit(cs[1]) THEN flushes(S)
                     ELSE IF Cardinality(S) = 5 THEN unique5(S)
                     ELSE values_findit(rs))

----------------------------------------------------------------------------
(* Flush suits *)

add_card_to_id_flush_suits(id, new_card) ==
    pack_hand(add_card(IF new_card = 0 THEN SKIP_BOARD ELSE ((new_card - 1) % 4) + 1,
                       unpack64(id)))

\* (a variant that counts the suits without the caps of 2 and 3)
eval_flush_suits_uncapped(id) ==
    LET h == unpack64(id)
        nsp(s) == Cardinality({i \in 1..h.n_pocket : h.pocket[i] = s})
        nsb(s) == Cardinality({i \in 1..h.n_board :
                                 h.board[i] # SKIP_BOARD /\ h.board[i] = s})
        hit == {s \in 1..4 : nsp(s) + nsb(s) >= 5}
    IN IF hit = {} THEN -1 ELSE CHOOSE s \in hit : \A t \in hit : s <= t

\* the first suit of 1..4 with nsp[suit] + nsb[suit] >= 5, the counters capped
\* at 2 and 3
first_suit(h) ==
    LET hit == {s \in 1..4 :
                   MIN(Cardinality({i \in 1..h.n_pocket : h.pocket[i] = s}), 2)
                   + MIN(Cardinality({i \in 1..h.n_board :
                                        h.board[i] # SKIP_BOARD /\ h.board[i] = s}), 3) >= 5}
    IN IF hit = {} THEN -1 ELSE CHOOSE s \in hit : \A t \in hit : s <= t

eval_flush_suits(id) == first_suit(unpack64(id))

----------------------------------------------------------------------------
(* Flush ranks *)

\* (a variant that asks for two suited cards among the first three of the pocket)
no_flush_left_early(n_board, n_pocket, nsb, nsp) ==
    \/ n_board = 4 /\ nsb <= 1
    \/ n_board = 5 /\ nsb <= 2
    \/ n_board = 5 /\ n_pocket = 3 /\ nsp <= 1
    \/ n_board = 5 /\ n_pocket = 4 /\ nsp <= 1
\* (a variant that tests the board only)
no_flush_left_board(n_board, n_pocket, nsb, nsp) ==
    \/ n_board = 4 /\ nsb <= 1
    \/ n_board = 5 /\ nsb <= 2
\* the four tests that end add_card_to_id_flush_ranks with 0: no flush can be
\* made of the suited cards counted
no_flush_left(n_board, n_pocket, nsb, nsp) ==
    \/ n_board = 4 /\ nsb <= 1
    \/ n_board = 5 /\ nsb <= 2
    \/ n_board = 5 /\ n_pocket = 3 /\ nsp = 0
    \/ n_board = 5 /\ n_pocket = 4 /\ nsp <= 1

\* the end of add_card_to_id_flush_ranks: the suited cards of the pocket and of
\* the board are counted, and the ID is 0 when no flush can be made of them
count_suited(h) ==
    IF no_flush_left(h.n_board, h.n_pocket,
           Cardinality({i \in 1..h.n_board :
               h.board[i] # ANY_CARD /\ h.board[i] # SKIP_BOARD /\ h.board[i] # 0}),
           Cardinality({i \in 1..h.n_pocket : h.pocket[i] # ANY_CARD /\ h.pocket[i] # 0}))
    THEN Zero64
    ELSE pack_hand(h)

\* the card as the ID holds it is looked for in the pocket and in the board
\* (0 when it is there), then added
add_suited(h0, nc) ==
    IF \/ \E i \in 1..h0.n_pocket :
             h0.pocket[i] # ANY_CARD /\ h0.pocket[i] # SKIP_BOARD /\ h0.pocket[i] = nc
       \/ \E i \in 1..h0.n_board :
             h0.board[i] # ANY_CARD /\ h0.board[i] # SKIP_BOARD /\ h0.board[i] = nc
    THEN Zero64
    ELSE count_suited(add_card(nc, h0))

add_card_to_id_flush_ranks(id, new_card, flush_suit) ==
    add_suited(unpack64(id),
               IF new_card = 0 THEN SKIP_BOARD
               ELSE IF ((new_card - 1) % 4) + 1 = flush_suit
                    THEN (2 + ((new_card - 1) \div 4)) % 16
                    ELSE ANY_CARD)

add_card_to_id_flush_ranks_3(id, new_card) == add_card_to_id_flush_ranks(id, new_card, 3)
add_card_to_id_flush_ranks_4(id, new_card) == add_card_to_id_flush_ranks(id, new_card, 4)

\* (a variant that looks at the first board triple only)
n_board_perms_first(n) == 1
\* number of board triples for n cards
n_board_perms_of(n) == IF n = 9 THEN 10 ELSE IF n = 8 THEN 4 ELSE IF n = 7 THEN 1 ELSE -1

\* lowest value of q over the pairs and triples, starting from 8191
Best(Q) == IF Q = {} THEN 8191
           ELSE MIN(8191, CHOOSE q \in Q : \A r \in Q : q <= r)

\* unpack64, then skip_board, as both rank evaluators start
unpack_skipped(h) ==
    [pocket |-> h.pocket, n_pocket |-> h.n_pocket,
     board |-> skip_board(h.board).board, n_board |-> skip_board(h.board).n_board]

\* the five ranks of a pocket pair and a board triple
flush_ranks_at(g, np, nb) ==
    << g.pocket[pocket_perms[np][1] + 1] - 2,
       g.pocket[pocket_perms[np][2] + 1] - 2,
       g.board[board_perms[nb][1] + 1] - 2,
       g.board[board_perms[nb][2] + 1] - 2,
       g.board[board_perms[nb][3] + 1] - 2 >>

\* eval_flush_ranks on the arrays
best_flush(g) ==
    IF g.pocket[1] = 0 \/ g.pocket[2] = 0 \/ g.board[1] = 0 \/ g.board[2] = 0
       \/ g.board[3] = 0
    THEN -1
    ELSE IF g.pocket[1] = ANY_CARD \/ g.pocket[2] = ANY_CARD \/ g.board[1] = ANY_CARD
            \/ g.board[2] = ANY_CARD \/ g.board[3] = ANY_CARD
    THEN -1
    ELSE cactus_to_ray(Best(
            {flushes({flush_ranks_at(g, x[1], x[2])[i] : i \in 1..5}) :
                x \in {y \in (1..n_pocket_perms)
                              \X (1..n_board_perms_of(g.n_pocket + g.n_board)) :
                          \A i \in 1..5 : /\ flush_ranks_at(g, y[1], y[2])[i] >= 0
                                          /\ flush_ranks_at(g, y[1], y[2])[i] <= 12}}))

eval_flush_ranks(id) == best_flush(unpack_skipped(unpack64(id)))

----------------------------------------------------------------------------
(* No flush *)

\* (a variant that refuses the fourth card of a rank)
add_rank_three(h0, nc) ==
    IF \E r \in {h0.pocket[i] : i \in 1..h0.n_pocket} \cup {h0.board[i] : i \in 1..h0.n_board}
                  \cup {nc} :
          /\ r >= 1 /\ r <= 13
          /\ Cardinality({i \in 1..h0.n_pocket : h0.pocket[i] = r})
             + Cardinality({i \in 1..h0.n_board : h0.board[i] # SKIP_BOARD /\ h0.board[i] = r})
             + (IF nc # SKIP_BOARD /\ nc = r THEN 1 ELSE 0) > 3
    THEN Zero64
    ELSE pack_hand(add_card(nc, h0))
\* the ranks of the ID and the new rank are counted (0 when a rank is there
\* more than 4 times), then the rank is added; of the counters n_rank[1..13]
\* only those of the ranks held and of the new rank are above 0
add_rank(h0, nc) ==
    IF \E r \in {h0.pocket[i] : i \in 1..h0.n_pocket} \cup {h0.board[i] : i \in 1..h0.n_board}
                  \cup {nc} :
          /\ r >= 1 /\ r <= 13
          /\ Cardinality({i \in 1..h0.n_pocket : h0.pocket[i] = r})
             + Cardinality({i \in 1..h0.n_board : h0.board[i] # SKIP_BOARD /\ h0.board[i] = r})
             + (IF nc # SKIP_BOARD /\ nc = r THEN 1 ELSE 0) > 4
    THEN Zero64
    ELSE pack_hand(add_card(nc, h0))

add_card_to_id_no_flush(id, new_card) ==
    add_rank(unpack64(id),
             IF new_card = 0 THEN SKIP_BOARD ELSE (1 + ((new_card - 1) \div 4)) % 16)

\* the cactus card: its rank bits and prime are the rank, its suit bit the suit
card_to_cactus(rank, suit) == [r |-> rank - 1, s |-> suit]

eval_cactus_no_flush(c1, c2, c3, c4, c5) ==
    LET rs == <<c1.r, c2.r, c3.r, c4.r, c5.r>>
        s == unique5({rs[i] : i \in 1..5})
    IN IF s # 0 THEN s ELSE values_findit(rs)

\* the loops of eval_no_flush over the pocket pairs and the board triples of
\* the cactus cards
best_of_cactus(pocket, board, n) ==
    cactus_to_ray(Best(
        {eval_cactus_no_flush(pocket[pocket_perms[x[1]][1] + 1],
                              pocket[pocket_perms[x[1]][2] + 1],
                              board[board_perms[x[2]][1] + 1],
                              board[board_perms[x[2]][2] + 1],
                              board[board_perms[x[2]][3] + 1]) :
            x \in (1..n_pocket_perms) \X (1..n_board_perms_of(n))}))

\* eval_no_flush on the arrays
best_no_flush(g) ==
    IF g.n_pocket < 4 \/ g.n_board < 3 THEN 0
    ELSE best_of_cactus(
             [i \in 1..4 |-> card_to_cactus(g.pocket[i], ((i - 1) % 4) + 1)],
             [i \in 1..5 |-> card_to_cactus(g.board[i], ((g.n_pocket + i - 1) % 4) + 1)],
             g.n_pocket + g.n_board)

eval_no_flush(id) == best_no_flush(unpack_skipped(unpack64(id)))

----------------------------------------------------------------------------
(* Enumeration of the IDs.  The automaton ("FS", "FR", "NF") stands for the *)
(* function pointers add_card_to_id and eval_id.                            *)

add_card_to_id(aut, id, new_card) ==
    CASE aut = "FS" -> add_card_to_id_flush_suits(id, new_card)
      [] aut = "FR" -> add_card_to_id_flush_ranks_4(id, new_card)
      [] aut = "NF" -> add_card_to_id_no_flush(id, new_card)

\* (a variant that calls the flush-suit evaluator for every automaton)
eval_id_suits(aut, id) == eval_flush_suits(id)
eval_id(aut, id) ==
    CASE aut = "FS" -> eval_flush_suits(id)
      [] aut = "FR" -> eval_flush_ranks(id)
      [] aut = "NF" -> eval_no_flush(id)

\* the members of a finite set of naturals in ascending order
IntsAsc(V) ==
    LET below == [v \in V |-> Cardinality({u \in V : u < v})] @@ <<>>
    IN [k \in 1..Cardinality(V) |-> CHOOSE v \in V : below[v] = k - 1] @@ <<>>

\* f[1] \o f[2] \o ... \o f[n]
ConcatAll(f, n) ==
    LET cat[r \in (1..n) \X (1..n)] ==
            IF r[1] = r[2] THEN f[r[1]]
            ELSE LET mid == (r[1] + r[2]) \div 2
                 IN cat[<<r[1], mid>>] \o cat[<<mid + 1, r[2]>>]
    IN IF n = 0 THEN <<>> ELSE cat[<<1, n>>]

\* std::sort, then erase(std::unique), of the int64_t values pushed: the values
\* in ascending order, each once.  Ordered by the high limb, then the middle
\* limb, then the low limb.
SortUniqueLow(S) ==
    LET x0 == CHOOSE x \in S : TRUE
        V == {x[3] : x \in S}
        ls == IntsAsc(V)
    IN ConcatAll([k \in 1..Cardinality(V) |-> << <<x0[1], x0[2], ls[k]>> >>], Cardinality(V))
SortUniqueMid(S) ==
    LET V == {x[2] : x \in S}
        ms == IntsAsc(V)
    IN ConcatAll([j \in 1..Cardinality(V) |-> SortUniqueLow({x \in S : x[2] = ms[j]})],
                 Cardinality(V))
SortUnique(S) ==
    LET V == {x[1] : x \in S}
        hs == IntsAsc(V)
    IN ConcatAll([i \in 1..Cardinality(V) |-> SortUniqueMid({x \in S : x[1] = hs[i]})],
                 Cardinality(V))

\* std::sort of a vector of int64_t (equal values are kept)
Sort64Low(v) ==
    LET V == {v[i][3] : i \in 1..Len(v)}
        ls == IntsAsc(V)
    IN ConcatAll([k \in 1..Cardinality(V) |-> SelectSeq(v, LAMBDA x : x[3] = ls[k])],
                 Cardinality(V))
Sort64Mid(v) ==
    LET V == {v[i][2] : i \in 1..Len(v)}
        ms == IntsAsc(V)
    IN ConcatAll([j \in 1..Cardinality(V) |-> Sort64Low(SelectSeq(v, LAMBDA x : x[2] = ms[j]))],
                 Cardinality(V))
Sort64(v) ==
    LET V == {v[i][1] : i \in 1..Len(v)}
        hs == IntsAsc(V)
    IN ConcatAll([i \in 1..Cardinality(V) |-> Sort64Mid(SelectSeq(v, LAMBDA x : x[1] = hs[i]))],
                 Cardinality(V))

\* (a variant that never tries the skip input 0)
generation_no_skip(aut, id_queue_1, n_cards) ==
    SortUnique({add_card_to_id(aut, id_queue_1[i], new_card) :
                   i \in 1..Len(id_queue_1), new_card \in 1..MaxCard} \ {Zero64})
\* one pass of the loop over n_cards: id_queue_2 after sorting and dropping duplicates
generation(aut, id_queue_1, n_cards) ==
    LET min_card == IF n_cards <= 2 THEN 0 ELSE 1
        pushed == {add_card_to_id(aut, id_queue_1[i], new_card) :
                      i \in 1..Len(id_queue_1), new_card \in min_card..MaxCard} \ {Zero64}
    IN SortUnique(pushed)

\* id_queue_1, id_list and the queues of the passes done, before the loop
loop_start == [id_queue_1 |-> <<Zero64>>, id_list |-> <<Zero64>>, passed |-> << <<Zero64>> >>]

\* the end of a pass: id_queue_2 is appended to id_list and becomes id_queue_1
end_pass(before, id_queue_2) ==
    [id_queue_1 |-> id_queue_2, id_list |-> before.id_list \o id_queue_2,
     passed |-> Append(before.passed, id_queue_2)]

\* the loop over n_cards = 1..8 of generate_ids
RECURSIVE generate_loop(_, _, _)
generate_loop(aut, before, n_cards) ==
    IF n_cards > 8 THEN before
    ELSE generate_loop(aut, end_pass(before, generation(aut, before.id_queue_1, n_cards)),
                       n_cards + 1)

\* id_list as generate_ids returns it
\* (std::sort of a vector that holds no value twice is the ascending list of
\* its set of values; a vector with equal values is sorted keeping them)
generate_ids(loop_end) ==
    LET id_list == loop_end.id_list
        values == {id_list[k] : k \in 1..Len(id_list)}
    IN IF Cardinality(values) = Len(id_list) THEN SortUnique(values) ELSE Sort64(id_list)

\* the three calls of generate_ids in generate_handranks
loop_fs == generate_loop("FS", loop_start, 1)
loop_fr4 == generate_loop("FR", loop_start, 1)
loop_nf == generate_loop("NF", loop_start, 1)
list_fs == generate_ids(loop_fs)
list_fr4 == generate_ids(loop_fr4)
list_nf == generate_ids(loop_nf)
\* the three vectors of generate_handranks after its calls of generate_ids
tables == [id_fs |-> list_fs, id_fr4 |-> list_fr4, id_nf |-> list_nf]

\* the queue of every generation 0..8, as generate_ids appends them to id_list
queues(aut) ==
    CASE aut = "FS" -> loop_fs.passed
      [] aut = "FR" -> loop_fr4.passed
      [] aut = "NF" -> loop_nf.passed

\* the vectors id_fs, id_fr4 and id_nf; tab holds the three of them, as
\* process_ids is handed the one of its pass
id_fs(tab) == tab.id_fs
id_fr4(tab) == tab.id_fr4
id_nf(tab) == tab.id_nf


\* generate_handranks after its three calls of generate_ids

----------------------------------------------------------------------------
(* Table assembly.  HR is the finished vector hand_ranks: every entry holds *)
(* the value the last write to it left there, 0 where nothing was written.  *)

n_fs(tab) == Len(id_fs(tab))
n_fr4(tab) == Len(id_fr4(tab))
n_nf(tab) == Len(id_nf(tab))

offset_fs == NumSlots
\* (a variant that leaves no room for the block of the last flush-suit ID)
offset_fr4_short(tab) == offset_fs + n_fs(tab) * NumSlots
offset_fr4(tab) == offset_fs + NumSlots + n_fs(tab) * NumSlots
offset_nf(tab) == offset_fr4(tab) + (NumSlots + 3) + n_fr4(tab) * (NumSlots + 3)
\* (a variant that allocates no room for the block of the last ID)
max_rank_short(tab) == offset_nf(tab) + n_nf(tab) * NumSlots
max_rank(tab) == offset_nf(tab) + NumSlots + n_nf(tab) * NumSlots

\* the arguments of the three calls of process_ids
ids_of(tab, aut) == CASE aut = "FS" -> id_fs(tab) [] aut = "FR" -> id_fr4(tab) [] aut = "NF" -> id_nf(tab)
offset_of(tab, aut) == CASE aut = "FS" -> offset_fs [] aut = "FR" -> offset_fr4(tab) [] aut = "NF" -> offset_nf(tab)
offset_value_of(tab, aut) == CASE aut = "FS" -> offset_nf(tab) [] aut = "FR" -> 0 [] aut = "NF" -> 0
n_dummy_of(aut) == CASE aut = "FS" -> 0 [] aut = "FR" -> 3 [] aut = "NF" -> 0
\* (a variant that passes dummy_card = 0 for every automaton)
dummy_card_skip(aut) == 0
dummy_card_of(aut) == CASE aut = "FS" -> 0 [] aut = "FR" -> 1 [] aut = "NF" -> 0
\* map: the value stored for a terminal score of -1
map_of(tab, aut) == CASE aut = "FS" -> 0 [] aut = "FR" -> offset_fr4(tab) [] aut = "NF" -> offset_nf(tab)
block_size_of(aut) == NumSlots + n_dummy_of(aut)

\* (a variant of the fan-in block that stores offset_value in every entry)
fan_in_value(tab, aut, slot) == offset_value_of(tab, aut)
\* the fan-in block: entry 0 holds offset_value, the entries 1..block_size-1 offset
fan_in(tab, aut, slot) == IF slot = 0 THEN offset_value_of(tab, aut) ELSE offset_of(tab, aut)

\* hash_table[new_id]: the position of new_id in ids, 0 when it is not there
RECURSIVE lower_bound(_, _, _, _)
lower_bound(ids, id, lo, hi) ==
    IF lo >= hi THEN lo
    ELSE LET mid == (lo + hi) \div 2
         IN IF Less64(ids[mid], id) THEN lower_bound(ids, id, mid + 1, hi)
            ELSE lower_bound(ids, id, lo, mid)
hash_table(ids, new_id) ==
    LET p == lower_bound(ids, new_id, 1, Len(ids) + 1)
    IN IF p <= Len(ids) /\ ids[p] = new_id THEN p - 1 ELSE 0

\* the value process_ids stores at slot new_card of the block of ids[i]
\* (i counts from 0), for min_card <= new_card <= MaxCard
\* map.count(value) ? map[value] : value
mapped(tab, aut, value) == IF value = -1 THEN map_of(tab, aut) ELSE value

\* the value stored for new_id, reached from an ID of num_cards slots
stored(tab, aut, new_id, num_cards) ==
    IF new_id # Zero64 /\ num_cards + 1 = 9
    THEN mapped(tab, aut, eval_id(aut, new_id))
    ELSE IF new_id # Zero64
    THEN offset_of(tab, aut) + block_size_of(aut)
            + hash_table(ids_of(tab, aut), new_id) * block_size_of(aut)
    ELSE offset_of(tab, aut)

transition(tab, aut, i, new_card) ==
    stored(tab, aut, add_card_to_id(aut, ids_of(tab, aut)[i + 1], new_card),
           count_cards(ids_of(tab, aut)[i + 1]))

\* (a variant that lets every block take the skip input)
min_card_zero(tab, aut, i) == 0
\* (a variant that never lets a block take the skip input)
min_card_one(tab, aut, i) == 1
min_card_of(tab, aut, i) == IF count_cards(ids_of(tab, aut)[i + 1]) <= 1 THEN 0 ELSE 1

\* (a variant that leaves the dummy slots of every block unwritten)
dummy_value_unset(tab, aut, i) == -1
\* dummy_value when the loop over new_card has ended
dummy_value(tab, aut, i) ==
    IF dummy_card_of(aut) >= min_card_of(tab, aut, i) /\ dummy_card_of(aut) <= MaxCard
    THEN transition(tab, aut, i, dummy_card_of(aut))
    ELSE -1

\* process_ids(aut) writes entry idx
writes(tab, aut, idx) ==
    LET offset == offset_of(tab, aut)
        block_size == block_size_of(aut)
        n == Len(ids_of(tab, aut))
        i == (idx - offset - block_size) \div block_size
        slot == (idx - offset - block_size) % block_size
    IN \/ idx >= offset /\ idx < offset + block_size
       \/ /\ idx >= offset + block_size
          /\ idx < offset + block_size + n * block_size
          /\ \/ slot = 0
             \/ slot >= min_card_of(tab, aut, i) /\ slot <= MaxCard
             \/ slot >= NumSlots /\ dummy_value(tab, aut, i) # -1

\* the value of the last write of process_ids(aut) to entry idx
written(tab, aut, idx) ==
    LET offset == offset_of(tab, aut)
        block_size == block_size_of(aut)
        i == (idx - offset - block_size) \div block_size
        slot == (idx - offset - block_size) % block_size
    IN IF idx < offset + block_size THEN fan_in(tab, aut, idx - offset)
       ELSE IF slot >= NumSlots THEN dummy_value(tab, aut, i)
       ELSE IF slot >= min_card_of(tab, aut, i) THEN transition(tab, aut, i, slot)
       ELSE offset

\* hand_ranks[idx] when generate_handranks returns
HR(tab, idx) ==
    IF writes(tab, "NF", idx) THEN written(tab, "NF", idx)
    ELSE IF writes(tab, "FR", idx) THEN written(tab, "FR", idx)
    ELSE IF writes(tab, "FS", idx) THEN written(tab, "FS", idx)
    ELSE IF idx = 1 THEN offset_fr4(tab)
    ELSE IF idx = 0 THEN offset_nf(tab)
    ELSE 0

----------------------------------------------------------------------------
(* Queries.  The inputs c[1..9] are the board (zeros first for 7 and 8      *)
(* cards) and the pocket, as test_all_handranks walks them.                 *)

\* a run of n cards, each the next card or the next rank of the same suit
Runs(n, first) ==
    LET ext(R) == {Append(r, r[Len(r)] + g) : r \in R, g \in {1, 4}}
        R1 == {<<f>> : f \in first}
        R2 == ext(R1)
        R3 == ext(R2)
        R4 == ext(R3)
        R5 == ext(R4)
        all == CASE n = 3 -> R3 [] n = 4 -> R4 [] n = 5 -> R5
    IN {r \in all : r[n] <= MaxCard}

\* the lowest pocket card of the queries: every second card of the deck
PocketFirst == {c \in 1..MaxCard : c % 2 = 1}

Queries ==
    UNION {{SubSeq(<<0, 0>>, 1, 5 - nb) \o x[1] \o x[2] :
               x \in {y \in Runs(nb, 1..4) \X Runs(4, PocketFirst) :
                         \A a \in 1..nb, b \in 1..4 : y[1][a] # y[2][b]}} : nb \in 3..5}

\* n_board_perms of test_all_handranks, by k = 0, 1, 2 (7, 8, 9 cards)
n_board_perms == <<1, 4, 10>>

\* 7 + k is the number of real cards of the query
k_of(cs) == Cardinality({x \in 1..2 : cs[x] # 0})

\* score_old: the best reference score over the 6 pocket pairs and the board triples
score_old_of(cs) ==
    LET k == k_of(cs)
        S == {oracle5(<<cs[5 + pocket_perms[x[1]][1] + 1],
                        cs[5 + pocket_perms[x[1]][2] + 1],
                        cs[(2 - k) + board_perms[x[2]][1] + 1],
                        cs[(2 - k) + board_perms[x[2]][2] + 1],
                        cs[(2 - k) + board_perms[x[2]][3] + 1]>>) :
                 x \in (1..n_pocket_perms) \X (1..n_board_perms[k + 1])}
    IN CHOOSE m \in S : \A o \in S : o <= m

\* the nine reads of a chain through HR + (4 - suit) from HR[1] + 56
flush_chain(tab, cs, suit) ==
    LET score[n \in 0..9] ==
            IF n = 0 THEN HR(tab, 1) + NumSlots + 3
            ELSE HR(tab, score[n - 1] + cs[n] + (4 - suit))
    IN score[9]

\* the value process_ids stores for the ID an automaton reaches with its n-th
\* input: the start of the block of the ID, or the score of a 9-slot ID
chain_value(tab, aut, id, n) ==
    IF n = 9
    THEN mapped(tab, aut, eval_id(aut, id))
    ELSE offset_of(tab, aut) + block_size_of(aut)
            + hash_table(ids_of(tab, aut), id) * block_size_of(aut)

\* the ID is a key of hash_table
in_list(ids, id) ==
    LET p == lower_bound(ids, id, 1, Len(ids) + 1)
    IN p <= Len(ids) /\ ids[p] = id

\* fs_id, nf_id and flush_id are the IDs the transition functions reach for the
\* inputs the three chains have read (flush_id for the suit fs of the query)
\* asm is the place of generate_handranks in its three passes, walk a chain
\* over free inputs, entry the place of raygen9, pure a call of a function
VARIABLES cards, level, fs, snf, pc, flush_level, score_flush, score_new, score_old,
          read, probe_suit, fs_id, nf_id, flush_id, asm, walk, entry, pure

query_vars == <<cards, level, fs, snf, pc, flush_level, score_flush, score_new, score_old,
                read, probe_suit, fs_id, nf_id, flush_id>>
vars == <<query_vars, asm, walk, entry, pure>>

\* the value of a variable the specification at hand does not use
Idle == [pc |-> "idle"]

InitFrom(Q) ==
    /\ cards \in Q
    /\ level = 0
    /\ fs = 2 * NumSlots
    /\ snf = HR(tables, 0) + NumSlots
    /\ pc = "chain"
    /\ flush_level = 0
    /\ score_flush = 0
    /\ score_new = 0
    /\ score_old = 0
    /\ read = 0
    /\ probe_suit = 0
    /\ fs_id = Zero64
    /\ nf_id = Zero64
    /\ flush_id = Zero64
    /\ asm = Idle /\ walk = Idle /\ entry = Idle /\ pure = Idle

\* one level of the nested loops: both chains take the card cards[level + 1]
Lookup ==
    /\ pc = "chain"
    /\ level < 9
    /\ level' = level + 1
    /\ fs' = HR(tables, fs + cards[level + 1])
    /\ snf' = HR(tables, snf + cards[level + 1])
    /\ IF level + 1 < 9
       THEN UNCHANGED <<pc, score_flush, score_new>>
       ELSE IF fs' # 0
            THEN pc' = "flush" /\ score_flush' = HR(tables, 1) + NumSlots + 3 /\ score_new' = snf'
            ELSE pc' = "compare" /\ score_new' = snf' /\ UNCHANGED score_flush
    /\ fs_id' = add_card_to_id_flush_suits(fs_id, cards[level + 1])
    /\ nf_id' = add_card_to_id_no_flush(nf_id, cards[level + 1])
    /\ UNCHANGED <<cards, flush_level, score_old, read, probe_suit, flush_id>>
    /\ UNCHANGED <<asm, walk, entry, pure>>

\* one pass of the loop over HR_flush = HR_new + (4 - fs); read is the index of
\* HR_new it reads
FlushLookup ==
    /\ pc = "flush"
    /\ flush_level < 9
    /\ flush_level' = flush_level + 1
    /\ read' = score_flush + cards[flush_level + 1] + (4 - fs)
    /\ score_flush' = HR(tables, score_flush + cards[flush_level + 1] + (4 - fs))
    /\ IF flush_level + 1 < 9
       THEN UNCHANGED <<pc, score_new>>
       ELSE pc' = "compare" /\ score_new' = MAX(score_new, score_flush')
    /\ flush_id' = add_card_to_id_flush_ranks(flush_id, cards[flush_level + 1], fs)
    /\ UNCHANGED <<cards, level, fs, snf, score_old, probe_suit, fs_id, nf_id>>
    /\ UNCHANGED <<asm, walk, entry, pure>>

Compare ==
    /\ pc = "compare"
    /\ score_old' = score_old_of(cards)
    /\ pc' = IF score_new # score_old' THEN "fail" ELSE "ok"
    /\ UNCHANGED <<cards, level, fs, snf, flush_level, score_flush, score_new, read,
                   probe_suit, fs_id, nf_id, flush_id>>
    /\ UNCHANGED <<asm, walk, entry, pure>>

\* a reader walks the flush-rank automaton for a suit the flush-suit chain did
\* not name
Probe ==
    /\ pc = "ok"
    /\ \E suit \in (1..4) \ {fs} :
          /\ probe_suit' = suit
          /\ score_flush' = flush_chain(tables, cards, suit)
    /\ pc' = "probed"
    /\ UNCHANGED <<cards, level, fs, snf, flush_level, score_new, score_old, read,
                   fs_id, nf_id, flush_id>>
    /\ UNCHANGED <<asm, walk, entry, pure>>

Init == InitFrom(Queries)

Next == Lookup \/ FlushLookup \/ Compare \/ Probe

Spec == Init /\ [][Next]_vars

----------------------------------------------------------------------------
(* Properties of the queries *)

\* number of cards of the suit among the inputs lo..hi of the query
n_suited(cs, lo, hi, suit) ==
    Cardinality({x \in lo..hi : cs[x] # 0 /\ Suit(cs[x]) = suit})

\* the Omaha rule: two pocket cards and three board cards of the suit
flush_possible(cs, suit) == n_suited(cs, 6, 9, suit) >= 2 /\ n_suited(cs, 1, 5, suit) >= 3

\* C1: for every query walked to the end, the score read from the table (the
\* larger of the no-flush chain and, when the flush-suit chain names a suit, the
\* flush-rank chain) equals the best reference score over the 6 pocket pairs
\* and the board triples.
C1_ScoreIsBestOracle ==
    pc \in {"ok", "fail", "probed"} => score_new = score_old /\ pc # "fail"
C1_Witness ==
    /\ pc = "ok"
    /\ fs # 0
    /\ score_new = score_flush
    /\ snf < score_flush
    /\ k_of(cards) = 1

\* C2: the 9-step flush-suit chain returns a value in 0..4; it returns the suit s
\* exactly when the pocket holds at least 2 and the board at least 3 cards of s,
\* and 0 when no suit does.
C2_FlushSuit ==
    level = 9 =>
        /\ fs \in 0..4
        /\ \A suit \in 1..4 : (fs = suit) <=> flush_possible(cards, suit)
        /\ (fs = 0) <=> ~ \E suit \in 1..4 : flush_possible(cards, suit)
C2_Witness == level = 9 /\ fs = 3 /\ k_of(cards) = 0

\* the flush-rank base offset, the fan-in of the flush-rank automaton
FR_base == HR(tables, 1)

\* C4 as stated: a flush-rank chain over 9 inputs that are no flush for the
\* suit of the chain returns 0.
C4_NonFlushReturnsZero ==
    (pc = "probed" /\ ~flush_possible(cards, probe_suit)) => score_flush = 0
\* C4, amended: such a chain ends in the fan-in of the flush-rank automaton: it
\* returns the base offset HR[1], and the entry at that offset is 0.
C4_NonFlushReturnsFanIn ==
    (pc = "probed" /\ ~flush_possible(cards, probe_suit)) =>
        score_flush = FR_base /\ score_flush # 0 /\ HR(tables, score_flush) = 0
C4_Witness ==
    /\ pc = "probed"
    /\ ~flush_possible(cards, probe_suit)
    /\ n_suited(cards, 1, 5, probe_suit) >= 3
    /\ n_suited(cards, 6, 9, probe_suit) = 1

\* C6: every index of HR the flush-rank chain reads through HR + (4 - fs) lies
\* in [HR[1], HR[1] + 56 * (|FR| + 1) + (4 - fs)).
C6_ShiftedReadsInRegion ==
    flush_level > 0 =>
        /\ fs \in 1..4
        /\ read >= HR(tables, 1)
        /\ read < HR(tables, 1) + (NumSlots + 3) * (n_fr4(tables) + 1) + (4 - fs)
\* a read of one of the three dummy slots of a block
C6_Witness ==
    /\ flush_level > 0
    /\ (read - HR(tables, 1)) % (NumSlots + 3) >= NumSlots
    /\ read >= HR(tables, 1) + NumSlots + 3

\* the case of C11: a 9-card query whose five board cards are all of suit 4
\* and whose four pocket cards are all of suit 1
board_flush_no_pocket(cs) ==
    /\ k_of(cs) = 2
    /\ n_suited(cs, 1, 5, 4) = 5
    /\ n_suited(cs, 6, 9, 1) = 4

\* C11 as stated: for such a query the flush-suit chain yields 4.
C11_BoardFlushYieldsFour ==
    (level = 9 /\ board_flush_no_pocket(cards)) => fs = 4
\* C11, amended: for such a query the flush-suit chain yields 0 (the board
\* counts for at most 3 and the pocket holds no card of the suit), the
\* flush-rank table is not read and the score is the no-flush score, which is
\* the reference score.
C11_BoardFlushYieldsZero ==
    (level = 9 /\ board_flush_no_pocket(cards)) =>
        /\ fs = 0
        /\ flush_level = 0
        /\ pc # "flush"
        /\ pc \in {"ok", "fail", "probed"} => score_new = snf /\ score_new = score_old
C11_Witness == pc = "ok" /\ board_flush_no_pocket(cards) /\ score_new = snf

\* C14: along a query (no step pruned, zeros only as the leading board
\* inputs) the value of the flush-suit and of the no-flush chain after j <= 8
\* inputs is the block start off + B + B * index of the ID the transition
\* function reaches, that ID is in the list, and after 9 inputs it is the
\* score of the 9-slot ID with -1 replaced by the remap value; the same holds
\* for the flush-rank chain read without shift (suit 4).
C14_WalkRefinesStep ==
    /\ pc \in {"chain", "flush", "compare"} /\ level > 0 =>
          /\ fs_id # Zero64 /\ nf_id # Zero64
          /\ level < 9 => in_list(id_fs(tables), fs_id) /\ in_list(id_nf(tables), nf_id)
          /\ (level < 9 \/ pc = "compare") => fs = chain_value(tables, "FS", fs_id, level)
          /\ snf = chain_value(tables, "NF", nf_id, level)
    /\ (flush_level > 0 /\ fs = 4 /\ pc # "probed") =>
          /\ flush_id # Zero64
          /\ flush_level < 9 => in_list(id_fr4(tables), flush_id)
          /\ score_flush = chain_value(tables, "FR", flush_id, flush_level)
C14_Witness ==
    /\ flush_level = 9 /\ fs = 4 /\ k_of(cards) = 0
    /\ score_flush = eval_flush_ranks(flush_id)
    /\ snf = eval_no_flush(nf_id)

\* the IDs add_card_to_id_flush_ranks reaches for the suit along the inputs of
\* a query, Zero64 from the first pruned step on
flush_ids(cs, suit) ==
    LET f[n \in 0..9] ==
            IF n = 0 THEN Zero64
            ELSE LET prev == f[n - 1]
                 IN IF n > 1 /\ prev = Zero64 THEN Zero64
                    ELSE add_card_to_id_flush_ranks(prev, cs[n], suit)
    IN f

\* the input the block of the suit-4 table takes for the slot at card + shift
shifted_card(card, shift) ==
    IF card + shift > MaxCard THEN dummy_card_of("FR") ELSE card + shift
\* the IDs of the suit-4 automaton for the inputs shifted by 4 - suit
shifted_ids(cs, suit) ==
    LET f[n \in 0..9] ==
            IF n = 0 THEN Zero64
            ELSE LET prev == f[n - 1]
                 IN IF n > 1 /\ prev = Zero64 THEN Zero64
                    ELSE add_card_to_id_flush_ranks_4(prev, shifted_card(cs[n], 4 - suit))
    IN f

\* best reference score over the pocket pairs and board triples of the suit
flush_oracle(cs, suit) ==
    LET k == k_of(cs)
        hand(x) == <<cs[5 + pocket_perms[x[1]][1] + 1],
                     cs[5 + pocket_perms[x[1]][2] + 1],
                     cs[(2 - k) + board_perms[x[2]][1] + 1],
                     cs[(2 - k) + board_perms[x[2]][2] + 1],
                     cs[(2 - k) + board_perms[x[2]][3] + 1]>>
        S == {oracle5(hand(x)) :
                 x \in {y \in (1..n_pocket_perms) \X (1..n_board_perms[k + 1]) :
                           \A a \in 1..5 : Suit(hand(y)[a]) = suit}}
    IN IF S = {} THEN 0 ELSE CHOOSE m \in S : \A o \in S : o <= m

\* C15: for nine distinct cards, the chain read through HR + (4 - s) holds
\* after every input the value stored for the ID that
\* add_card_to_id_flush_ranks with flush_suit = s reaches: a card of suit s
\* reads the slot of the suit-4 card of its rank, any other card a slot that
\* is no suit-4 card (a card of another suit or a dummy slot); the 9th value
\* is the flush score of suit s, and for a suit the automaton prunes it is the
\* fan-in.
C15_SuitShift ==
    /\ (k_of(cards) = 2 /\ flush_level > 0 /\ pc # "probed") =>
          LET card == cards[flush_level]
              slot == (read - HR(tables, 1)) % (NumSlots + 3)
          IN /\ flush_id # Zero64
             /\ score_flush = chain_value(tables, "FR", flush_id, flush_level)
             /\ IF Suit(card) = fs THEN slot = 4 * Rank(card) + 4
                ELSE slot > MaxCard \/ Suit(slot) # 4
             /\ flush_level = 9 =>
                   score_flush = eval_flush_ranks(flush_id)
                   /\ score_flush = flush_oracle(cards, fs)
    /\ (k_of(cards) = 2 /\ pc = "probed") =>
          IF flush_ids(cards, probe_suit)[9] = Zero64
          THEN score_flush = FR_base
          ELSE score_flush = chain_value(tables, "FR", flush_ids(cards, probe_suit)[9], 9)
C15_Witness ==
    /\ k_of(cards) = 2 /\ flush_level = 9 /\ fs = 1 /\ pc = "compare"
    /\ (read - HR(tables, 1)) % (NumSlots + 3) >= NumSlots
    /\ score_flush = eval_flush_ranks(flush_id)

\* C17: in a 7- or 8-card query of flush suit 1, 2 or 3 a leading 0 reads slot
\* 4 - fs of its block, whose entry is the transition for ANY_CARD and not the
\* one for the skip; the chain follows the suit-4 automaton for the shifted
\* inputs, and its 9th value is the score of the ID reached through the skip
\* transitions, the best flush of the suit over the pocket pairs and the
\* triples of the real board.
C17_SkipReadAsAnyCard ==
    (k_of(cards) < 2 /\ fs \in 1..3 /\ flush_level > 0 /\ pc # "probed") =>
        /\ score_flush = chain_value(tables, "FR", shifted_ids(cards, fs)[flush_level], flush_level)
        /\ cards[flush_level] = 0 =>
              /\ (read - HR(tables, 1)) % (NumSlots + 3) = 4 - fs
              /\ read >= HR(tables, 1) + NumSlots + 3
              /\ Slot(shifted_ids(cards, fs)[flush_level], 0) = ANY_CARD
              /\ Slot(flush_id, 0) = SKIP_BOARD
              /\ score_flush # chain_value(tables, "FR", flush_id, flush_level)
        /\ flush_level = 9 =>
              /\ flush_id # Zero64
              /\ score_flush = eval_flush_ranks(flush_id)
              /\ score_flush = flush_oracle(cards, fs)
C17_Witness ==
    /\ k_of(cards) = 0 /\ fs \in 1..3 /\ flush_level = 9 /\ pc = "compare"
    /\ score_flush = eval_flush_ranks(flush_id)
    /\ score_flush > snf

----------------------------------------------------------------------------
(* Queries whose board and pocket are read in another order *)

Rot(s) == Tail(s) \o <<Head(s)>>
\* three orders of a board b and a pocket p, none the ascending one
Orders(b, p) == {<<Reverse(b), Reverse(p)>>, <<Rot(b), Reverse(p)>>, <<Reverse(b), Rot(p)>>}

\* the queries whose board holds three cards of a suit and whose pocket holds
\* one: the ones the flush-rank automaton does not prune on the board alone
PermBase ==
    {q \in Queries : \E suit \in 1..4 :
        n_suited(q, 1, 5, suit) >= 3 /\ n_suited(q, 6, 9, suit) >= 1}

PermQueries ==
    UNION {{SubSeq(q, 1, 2 - k_of(q)) \o x[1] \o x[2] :
               x \in Orders(SubSeq(q, 3 - k_of(q), 5), SubSeq(q, 6, 9))} :
           q \in PermBase}

\* the query with its board cards and its pocket cards in ascending order
sorted_query(cs) ==
    SubSeq(cs, 1, 2 - k_of(cs)) \o SortAsc(SubSeq(cs, 3 - k_of(cs), 5))
        \o SortAsc(SubSeq(cs, 6, 9))

\* the nine reads of a chain without shift from a starting block
chain(tab, start, cs) ==
    LET v[n \in 0..9] == IF n = 0 THEN start ELSE HR(tab, v[n - 1] + cs[n])
    IN v[9]

\* the IDs the transition function of the automaton reaches along the inputs
reached(aut, cs) ==
    LET f[n \in 0..9] ==
            IF n = 0 THEN Zero64
            ELSE LET prev == f[n - 1]
                 IN IF n > 1 /\ prev = Zero64 THEN Zero64
                    ELSE add_card_to_id(aut, prev, cs[n])
    IN f

InitPerm == InitFrom(PermQueries)

SpecPerm == InitPerm /\ [][Next]_vars

\* C3: pack64 of the pocket and the board of a query is the same for the
\* cards in any order; the 9-slot IDs the flush-suit and no-flush functions
\* reach, the values of the flush-suit and of the no-flush chain, and the
\* value of the flush-rank chain for every suit of which the board holds
\* three cards are those of the query in ascending order.
C3_OrderIndependent ==
    /\ pack64(SubSeq(cards, 6, 9), SubSeq(cards, 1, 5))
          = pack64(SubSeq(sorted_query(cards), 6, 9), SubSeq(sorted_query(cards), 1, 5))
    /\ pc = "ok" =>
          /\ fs_id = reached("FS", sorted_query(cards))[9]
          /\ nf_id = reached("NF", sorted_query(cards))[9]
          /\ fs = chain(tables, 2 * NumSlots, sorted_query(cards))
          /\ snf = chain(tables, HR(tables, 0) + NumSlots, sorted_query(cards))
          /\ fs # 0 =>
                /\ flush_id = flush_ids(sorted_query(cards), fs)[9]
                /\ score_flush = flush_chain(tables, sorted_query(cards), fs)
    /\ (pc = "probed" /\ n_suited(cards, 1, 5, probe_suit) >= 3) =>
          score_flush = flush_chain(tables, sorted_query(cards), probe_suit)
C3_Witness ==
    /\ pc = "ok" /\ fs # 0
    /\ SubSeq(cards, 6, 9) # SubSeq(sorted_query(cards), 6, 9)
    /\ SubSeq(cards, 1, 5) # SubSeq(sorted_query(cards), 1, 5)
    /\ score_flush = score_new

\* C16: when the flush-suit chain names a suit, the flush-rank chain read
\* through HR + (4 - fs) holds the start of a block of an ID after each of
\* its first 8 inputs, never the fan-in offset HR[1], whatever the order of
\* the board and of the pocket; its 9th value is the flush score of the suit.
C16_FlushChainNotPruned ==
    (flush_level > 0 /\ pc # "probed") =>
        /\ fs \in 1..4
        /\ score_flush # HR(tables, 1)
        /\ flush_level < 9 =>
              /\ score_flush >= HR(tables, 1) + NumSlots + 3
              /\ score_flush < HR(tables, 0)
              /\ (score_flush - HR(tables, 1)) % (NumSlots + 3) = 0
        /\ flush_level = 9 =>
              /\ score_flush = flush_oracle(cards, fs)
              /\ score_flush = eval_flush_ranks(flush_id)
              /\ score_flush > 0
C16_Witness ==
    /\ flush_level = 9 /\ pc = "compare" /\ k_of(cards) = 1
    /\ cards # sorted_query(cards)
    /\ score_flush # HR(tables, 1)
    /\ score_flush = eval_flush_ranks(flush_id)

----------------------------------------------------------------------------
(* generate_handranks, one step for the header, for the fan-in block of a   *)
(* pass and for every ID of a pass.  The vector hand_ranks is a function of *)
(* the place asm: an entry holds what the writes done so far left in it.    *)

QueryIdle ==
    /\ cards = <<0, 0, 0, 0, 0, 0, 0, 0, 0>>
    /\ level = 0 /\ fs = 0 /\ snf = 0 /\ pc = "idle" /\ flush_level = 0
    /\ score_flush = 0 /\ score_new = 0 /\ score_old = 0 /\ read = 0 /\ probe_suit = 0
    /\ fs_id = Zero64 /\ nf_id = Zero64 /\ flush_id = Zero64

pass_no(aut) == CASE aut = "FS" -> 1 [] aut = "FR" -> 2 [] aut = "NF" -> 3

\* the fan-in block of the pass is written
fan_in_done(aut) ==
    \/ asm.pc = "done"
    \/ asm.pc \in {"fan_in", "ids"} /\ pass_no(aut) < pass_no(asm.aut)
    \/ asm.pc = "ids" /\ aut = asm.aut
\* number of IDs of the pass whose block is written
processed(tab, aut) ==
    IF asm.pc = "done" THEN Len(ids_of(tab, aut))
    ELSE IF asm.pc \in {"fan_in", "ids"} /\ pass_no(aut) < pass_no(asm.aut)
    THEN Len(ids_of(tab, aut))
    ELSE IF asm.pc = "ids" /\ aut = asm.aut THEN asm.pos
    ELSE 0
has_written(tab, aut, idx) ==
    /\ writes(tab, aut, idx)
    /\ IF idx < offset_of(tab, aut) + block_size_of(aut) THEN fan_in_done(aut)
       ELSE (idx - offset_of(tab, aut) - block_size_of(aut)) \div block_size_of(aut)
               < processed(tab, aut)
hand_ranks(tab, idx) ==
    IF has_written(tab, "NF", idx) THEN written(tab, "NF", idx)
    ELSE IF has_written(tab, "FR", idx) THEN written(tab, "FR", idx)
    ELSE IF has_written(tab, "FS", idx) THEN written(tab, "FS", idx)
    ELSE IF asm.pc # "start" /\ idx = 1 THEN offset_fr4(tab)
    ELSE IF asm.pc # "start" /\ idx = 0 THEN offset_nf(tab)
    ELSE 0

InitAsm ==
    /\ QueryIdle
    /\ asm = [pc |-> "start", aut |-> "FS", pos |-> 0]
    /\ walk = Idle /\ entry = Idle /\ pure = Idle

\* the vector is allocated, hand_ranks[0] and hand_ranks[1] are written
Header ==
    /\ asm.pc = "start"
    /\ asm' = [asm EXCEPT !.pc = "fan_in"]
    /\ UNCHANGED <<query_vars, walk, entry, pure>>

\* process_ids writes the fan-in block of its pass
FanIn ==
    /\ asm.pc = "fan_in"
    /\ asm' = [asm EXCEPT !.pc = "ids", !.pos = 0]
    /\ UNCHANGED <<query_vars, walk, entry, pure>>

\* process_ids writes the block of ids[i], i = asm.pos
ProcessId ==
    /\ asm.pc = "ids"
    /\ asm.pos < Len(ids_of(tables, asm.aut))
    /\ asm' = [asm EXCEPT !.pos = asm.pos + 1]
    /\ UNCHANGED <<query_vars, walk, entry, pure>>

\* process_ids returns; the next pass, or the end of generate_handranks
NextPass ==
    /\ asm.pc = "ids"
    /\ asm.pos = Len(ids_of(tables, asm.aut))
    /\ asm' = IF asm.aut = "FS" THEN [pc |-> "fan_in", aut |-> "FR", pos |-> 0]
              ELSE IF asm.aut = "FR" THEN [pc |-> "fan_in", aut |-> "NF", pos |-> 0]
              ELSE [asm EXCEPT !.pc = "done"]
    /\ UNCHANGED <<query_vars, walk, entry, pure>>

NextAsm == Header \/ FanIn \/ ProcessId \/ NextPass

SpecAsm == InitAsm /\ [][NextAsm]_vars

\* the ID whose block the last step of a pass wrote, and the start of the block
last_id == ids_of(tables, asm.aut)[asm.pos]
id_index == offset_of(tables, asm.aut) + block_size_of(asm.aut) + (asm.pos - 1) * block_size_of(asm.aut)
in_pass == asm.pc = "ids" /\ asm.pos > 0

\* the ID holds a card that is no skip
holds_real_card(id) == \E s \in 0..8 : Slot(id, s) # 0 /\ Slot(id, s) # SKIP_BOARD

base_of(tab, aut) ==
    CASE aut = "FS" -> NumSlots [] aut = "FR" -> hand_ranks(tab, 1) [] aut = "NF" -> hand_ranks(tab, 0)
\* the first index behind the region of the pass
end_of(tab, aut) ==
    CASE aut = "FS" -> hand_ranks(tab, 1) [] aut = "FR" -> hand_ranks(tab, 0) [] aut = "NF" -> max_rank(tab)

fan_in_holds(tab, aut, slots) ==
    /\ hand_ranks(tab, base_of(tab, aut)) = (IF aut = "FS" THEN hand_ranks(tab, 0) ELSE 0)
    /\ \A k \in slots : hand_ranks(tab, base_of(tab, aut) + k) = base_of(tab, aut)

\* C7: from the step that writes the fan-in block of a pass to the end of
\* generate_handranks, the entry at the base offset holds the cross-automaton
\* value (hand_ranks[0] for the flush suits, 0 for the two others) and the
\* entries base + k, k in 1..B-1, hold the base offset (every k when a pass
\* begins or ends, one k in turn after every other step).
C7_FanInIdentity ==
    \A aut \in {"FS", "FR", "NF"} :
        fan_in_done(aut) =>
            /\ base_of(tables, aut) = offset_of(tables, aut)
            /\ IF asm.pc = "done" \/ asm.pos = 0 \/ asm.pos = Len(ids_of(tables, asm.aut))
               THEN fan_in_holds(tables, aut, 1..(block_size_of(aut) - 1))
               ELSE fan_in_holds(tables, aut, {1 + (asm.pos % (block_size_of(aut) - 1))})
C7_Witness ==
    /\ asm.pc = "done"
    /\ hand_ranks(tables, NumSlots) = hand_ranks(tables, 0)
    /\ hand_ranks(tables, hand_ranks(tables, 1) + NumSlots + 2) = hand_ranks(tables, 1)
    /\ hand_ranks(tables, hand_ranks(tables, 0)) = 0

\* C8: the list of a pass is strictly ascending from the ID 0 (so it holds no
\* ID twice); an ID is in the queue of generation n exactly for n the number
\* of its non-zero slots, which is at most 8; the list is as long as the
\* queues together.
C8_EnumerationSorted ==
    in_pass =>
        /\ asm.pos = 1 => last_id = Zero64
        /\ asm.pos > 1 => Less64(ids_of(tables, asm.aut)[asm.pos - 1], last_id)
        /\ count_cards(last_id) <= 8
        /\ \A n \in 0..8 :
              in_list(queues(asm.aut)[n + 1], last_id) <=> (n = count_cards(last_id))
        /\ asm.pos = Len(ids_of(tables, asm.aut)) =>
              Len(ids_of(tables, asm.aut)) =
                  Len(queues(asm.aut)[1]) + Len(queues(asm.aut)[2]) + Len(queues(asm.aut)[3])
                  + Len(queues(asm.aut)[4]) + Len(queues(asm.aut)[5]) + Len(queues(asm.aut)[6])
                  + Len(queues(asm.aut)[7]) + Len(queues(asm.aut)[8]) + Len(queues(asm.aut)[9])
C8_Witness ==
    /\ in_pass /\ asm.aut = "FR"
    /\ count_cards(last_id) = 8
    /\ Slot(last_id, 0) = SKIP_BOARD
    /\ \E s \in 1..8 : Slot(last_id, s) = ANY_CARD

\* C9: hand_ranks[1] = 106 + 53 * |FS|, hand_ranks[0] = hand_ranks[1] +
\* 56 * (|FR| + 1) and the length is hand_ranks[0] + 53 * (|NF| + 1) (53 being
\* NumSlots); the regions follow each other from 53 to the length; the block a
\* pass writes lies in the region of the pass, and the pass writes no entry of
\* the header, none below and none behind its region.
C9_Layout ==
    asm.pc # "start" =>
        /\ hand_ranks(tables, 1) = 2 * NumSlots + NumSlots * Len(id_fs(tables))
        /\ hand_ranks(tables, 0) = hand_ranks(tables, 1) + (NumSlots + 3) * (Len(id_fr4(tables)) + 1)
        /\ max_rank(tables) = hand_ranks(tables, 0) + NumSlots * (Len(id_nf(tables)) + 1)
        /\ NumSlots < hand_ranks(tables, 1) /\ hand_ranks(tables, 1) < hand_ranks(tables, 0)
        /\ hand_ranks(tables, 0) < max_rank(tables)
        /\ in_pass =>
              /\ id_index >= base_of(tables, asm.aut) + block_size_of(asm.aut)
              /\ id_index + block_size_of(asm.aut) <= end_of(tables, asm.aut)
              /\ \A idx \in (0..(NumSlots - 1)) \cup {base_of(tables, asm.aut) - 1, end_of(tables, asm.aut)} :
                    ~writes(tables, asm.aut, idx)
C9_Witness ==
    /\ in_pass /\ asm.aut = "FR" /\ asm.pos = Len(id_fr4(tables))
    /\ id_index + block_size_of("FR") = hand_ranks(tables, 0)
    /\ has_written(tables, "FR", hand_ranks(tables, 0) - 1)

\* C18: for the ID of at most 7 slots whose block is written and every input
\* from min_card to the last card, a non-zero result of the transition
\* function is an ID of the list, at an index that is not 0, and the slot
\* holds the block start of that index.
C18_ListClosed ==
    (in_pass /\ count_cards(last_id) <= 7) =>
        \A new_card \in min_card_of(tables, asm.aut, asm.pos - 1)..MaxCard :
            LET new_id == add_card_to_id(asm.aut, last_id, new_card)
            IN new_id # Zero64 =>
                  /\ in_list(ids_of(tables, asm.aut), new_id)
                  /\ hash_table(ids_of(tables, asm.aut), new_id) > 0
                  /\ hand_ranks(tables, id_index + new_card) = chain_value(tables, asm.aut, new_id, 1)
C18_Witness ==
    /\ in_pass /\ asm.aut = "FR" /\ count_cards(last_id) = 7
    /\ add_card_to_id("FR", last_id, 4) # Zero64
    /\ in_list(id_fr4(tables), add_card_to_id("FR", last_id, 4))
    /\ add_card_to_id("FR", last_id, 1) = Zero64

\* the conditions of C19 on an ID of the flush-rank automaton
flush_rank_id_ok(id) ==
    LET h == unpack64(id)
        suited(c) == c # ANY_CARD /\ c # SKIP_BOARD /\ c # 0
        held == [z \in 1..9 |-> IF z <= 5 THEN h.board[z] ELSE h.pocket[z - 5]]
        nsb == Cardinality({z \in 1..5 : suited(h.board[z])})
        nsp == Cardinality({z \in 1..4 : suited(h.pocket[z])})
    IN /\ \A y, z \in 1..9 : (y # z /\ suited(held[y])) => held[y] # held[z]
       /\ h.n_board = 4 => nsb >= 2
       /\ h.n_board = 5 => nsb >= 3
       /\ h.n_pocket = 3 => nsp >= 1
       /\ h.n_pocket = 4 => nsp >= 2

\* C19: every ID of the flush-rank list and every non-zero ID that
\* add_card_to_id_flush_ranks returns for it holds no suited rank twice and
\* the suited cards the tests ask for; for the 9-slot IDs eval_flush_ranks
\* is not -1 and the slot holds its score, not hand_ranks[1].
C19_FlushRankIds ==
    (in_pass /\ asm.aut = "FR") =>
        /\ flush_rank_id_ok(last_id)
        /\ \A new_card \in min_card_of(tables, "FR", asm.pos - 1)..MaxCard :
              LET new_id == add_card_to_id_flush_ranks(last_id, new_card, 4)
              IN new_id # Zero64 =>
                    /\ flush_rank_id_ok(new_id)
                    /\ count_cards(last_id) = 8 =>
                          /\ eval_flush_ranks(new_id) # -1
                          /\ eval_flush_ranks(new_id) > 0
                          /\ hand_ranks(tables, id_index + new_card) = eval_flush_ranks(new_id)
                          /\ hand_ranks(tables, id_index + new_card) # hand_ranks(tables, 1)
C19_Witness ==
    /\ in_pass /\ asm.aut = "FR" /\ count_cards(last_id) = 8
    /\ Slot(last_id, 0) = SKIP_BOARD
    /\ add_card_to_id_flush_ranks(last_id, 4, 4) # Zero64
    /\ hand_ranks(tables, id_index + 4) = eval_flush_ranks(add_card_to_id_flush_ranks(last_id, 4, 4))
    /\ hand_ranks(tables, id_index + 1) = hand_ranks(tables, 1)

\* C21: the ID whose block is written and every non-zero ID add_card_to_id
\* returns for it fill the arrays within their sizes (at most 5 board and 4
\* pocket entries, which together are the non-zero slots), hold a pocket card
\* only behind a full board, and hold the skip sentinel in no pocket slot and
\* in at most two board slots; add_card is applied to IDs of at most 8 slots
\* only, where it writes board[n_board] with n_board < 5 or pocket[n_pocket]
\* with n_pocket < 4, and its result has one non-zero slot more.
C21_SlotCapacity ==
    LET filled(h, id) ==
            /\ h.n_board <= 5 /\ h.n_pocket <= 4
            /\ h.n_board + h.n_pocket = count_cards(id)
            /\ h.n_board = Cardinality({s \in 0..4 : Slot(id, s) # 0})
            /\ h.n_pocket > 0 => h.n_board = 5
        slots_ok(id) ==
            /\ filled(unpack64(id), id)
            /\ \A s \in 5..8 : Slot(id, s) # SKIP_BOARD
            /\ Cardinality({s \in 0..4 : Slot(id, s) = SKIP_BOARD}) <= 2
        one_more(new_id) ==
            new_id # Zero64 =>
                slots_ok(new_id) /\ count_cards(new_id) = count_cards(last_id) + 1
        room(h) == h.n_board < 5 \/ h.n_pocket < 4
    IN in_pass =>
          /\ slots_ok(last_id)
          /\ count_cards(last_id) <= 8
          /\ room(unpack64(last_id))
          /\ \A new_card \in min_card_of(tables, asm.aut, asm.pos - 1)..MaxCard :
                one_more(add_card_to_id(asm.aut, last_id, new_card))
C21_Witness ==
    /\ in_pass /\ asm.aut = "NF" /\ count_cards(last_id) = 8
    /\ Slot(last_id, 0) = SKIP_BOARD /\ Slot(last_id, 1) = SKIP_BOARD
    /\ Slot(last_id, 7) # 0 /\ Slot(last_id, 8) = 0
    /\ min_card_of(tables, "NF", asm.pos - 1) = 1
    /\ Slot(add_card_to_id("NF", last_id, MaxCard), 8) # 0

\* C22: for every ID of the no-flush list and every card, the function
\* add_card_to_id_no_flush returns 0 exactly when the ID holds the rank of the
\* card 4 times already (the skip input is never refused, skip slots are no
\* rank); the ID holds no rank more than 4 times and a non-zero result holds
\* the rank of the card once more, at most 4 times;
\* the slot of a refused card holds the fan-in offset and, up to 7 slots, no
\* other slot does; the deck has 4 cards of every rank, so a refused card is a
\* fifth card of its rank, which a query of distinct cards does not hold.
C22_RankBound ==
    LET n_rank(id, r) == Cardinality({s \in 0..8 : Slot(id, s) = r})
        rank(new_card) == 1 + ((new_card - 1) \div 4)
        bound(new_id, held, r, value) ==
            /\ new_id = Zero64 <=> held + 1 > 4
            /\ new_id = Zero64 <=> held = 4
            /\ new_id # Zero64 => n_rank(new_id, r) = held + 1
            /\ new_id = Zero64 => value = offset_nf(tables)
            /\ (new_id # Zero64 /\ count_cards(last_id) <= 7) => value # offset_nf(tables)
    IN (in_pass /\ asm.aut = "NF") =>
          /\ \A r \in 1..13 : n_rank(last_id, r) <= 4
          /\ \A r \in 1..NumRanks : Cardinality({c \in 1..MaxCard : rank(c) = r}) = 4
          /\ add_card_to_id_no_flush(last_id, 0) # Zero64
          /\ \A new_card \in 1..MaxCard :
                bound(add_card_to_id_no_flush(last_id, new_card),
                      n_rank(last_id, rank(new_card)), rank(new_card),
                      hand_ranks(tables, id_index + new_card))
C22_Witness ==
    /\ in_pass /\ asm.aut = "NF" /\ count_cards(last_id) = 7
    /\ Cardinality({s \in 0..8 : Slot(last_id, s) = NumRanks}) = 4
    /\ Slot(last_id, 0) = SKIP_BOARD
    /\ add_card_to_id_no_flush(last_id, MaxCard) = Zero64
    /\ add_card_to_id_no_flush(last_id, 1) # Zero64
    /\ hand_ranks(tables, id_index + MaxCard) = offset_nf(tables)
    /\ hand_ranks(tables, id_index + 1) # offset_nf(tables)

\* C23: the block of a flush-rank ID has NumSlots + 3 entries; its three
\* dummy slots are written and hold the value of slot 1, which is what
\* process_ids stores for the ID with ANY_CARD added (the block of that ID,
\* the mapped score of a 9-slot ID, or the fan-in offset when it is refused);
\* the slot of every card that is not of suit 4 holds that value too.  The
\* blocks of the two other automata have NumSlots entries: the pass writes
\* none of the three entries behind the slot of the last card.
C23_DummySlots ==
    in_pass =>
        IF asm.aut = "FR"
        THEN /\ block_size_of("FR") = NumSlots + 3
             /\ dummy_value(tables, "FR", asm.pos - 1) # -1
             /\ hand_ranks(tables, id_index + 1)
                   = stored(tables, "FR", add_card_to_id_flush_ranks(last_id, ANY_CARD, 4),
                            count_cards(last_id))
             /\ \A slot \in NumSlots..(NumSlots + 2) :
                   /\ has_written(tables, "FR", id_index + slot)
                   /\ hand_ranks(tables, id_index + slot) = hand_ranks(tables, id_index + 1)
             /\ \A c \in 1..MaxCard :
                   c % 4 # 0 =>
                       /\ add_card_to_id_flush_ranks(last_id, c, 4)
                             = add_card_to_id_flush_ranks(last_id, ANY_CARD, 4)
                       /\ hand_ranks(tables, id_index + c) = hand_ranks(tables, id_index + 1)
        ELSE /\ block_size_of(asm.aut) = NumSlots
             /\ n_dummy_of(asm.aut) = 0
             /\ \A slot \in NumSlots..(NumSlots + 2) :
                   /\ ~has_written(tables, asm.aut, id_index + slot)
                   /\ hand_ranks(tables, id_index + slot) = 0
C23_Witness ==
    /\ in_pass /\ asm.aut = "FR" /\ count_cards(last_id) = 8
    /\ eval_flush_ranks(add_card_to_id_flush_ranks(last_id, ANY_CARD, 4)) > 0
    /\ hand_ranks(tables, id_index + NumSlots + 2)
          = eval_flush_ranks(add_card_to_id_flush_ranks(last_id, ANY_CARD, 4))
    /\ hand_ranks(tables, id_index + 3) = hand_ranks(tables, id_index + NumSlots)
    /\ hand_ranks(tables, id_index + 4) # hand_ranks(tables, id_index + 1)

----------------------------------------------------------------------------
(* Calls of pack64, unpack64 and of the evaluators on arrays of slot values *)

PocketValues == {ANY_CARD, 13, MaxCard}
BoardValues == {13, SKIP_BOARD}
\* the arrays of n entries whose first entries are values of V, zero behind them
Arrays(V, n) ==
    UNION {{Pad(s, n) : s \in [1..m -> V]} : m \in 0..n}

InitPure ==
    /\ QueryIdle
    /\ asm = Idle /\ walk = Idle /\ entry = Idle
    /\ \E p \in Arrays(PocketValues, 4), b \in Arrays(BoardValues, 5) :
          pure = [pc |-> "arrays", pocket |-> p, board |-> b]

Pack ==
    /\ pure.pc = "arrays"
    /\ pure' = [pc |-> "packed", pocket |-> pure.pocket, board |-> pure.board,
                id |-> pack64(pure.pocket, pure.board)]
    /\ UNCHANGED <<query_vars, asm, walk, entry>>

Unpack ==
    /\ pure.pc = "packed"
    /\ pure' = [pc |-> "unpacked", pocket |-> pure.pocket, board |-> pure.board,
                id |-> pure.id, out |-> unpack64(pure.id)]
    /\ UNCHANGED <<query_vars, asm, walk, entry>>

\* process_ids calls eval_id for the ID and stores the value or what map holds
\* for it; the evaluators return to their caller on every path
Evaluate ==
    /\ pure.pc = "packed"
    /\ \E aut \in {"FR", "NF"} :
          LET value == eval_id(aut, pure.id)
          IN pure' = [pc |-> "evaluated", aut |-> aut, id |-> pure.id,
                      value |-> value, stored |-> mapped(tables, aut, value), aborted |-> FALSE]
    /\ UNCHANGED <<query_vars, asm, walk, entry>>

NextPure == Pack \/ Unpack \/ Evaluate

SpecPure == InitPure /\ [][NextPure]_vars

\* number of entries of the array that hold the value
occurs(s, v) == Cardinality({z \in 1..Len(s) : s[z] = v})

\* C10: unpack64 of pack64 of a pocket and a board returns every value as
\* often as the pocket and the board hold it, in descending order with the
\* zeros behind; the board is read from the slots 0..4 (the low 35 bits), the
\* pocket from the slots 5..8; n_board and n_pocket count the non-zero values.
C10_PackUnpackRoundTrip ==
    pure.pc = "unpacked" =>
        /\ \A v \in 1..SKIP_BOARD :
              /\ occurs(pure.out.board, v) = occurs(pure.board, v)
              /\ occurs(pure.out.pocket, v) = occurs(pure.pocket, v)
        /\ \A z \in 1..4 : pure.out.board[z] >= pure.out.board[z + 1]
        /\ \A z \in 1..3 : pure.out.pocket[z] >= pure.out.pocket[z + 1]
        /\ \A z \in 1..5 : pure.out.board[z] = Slot(pure.id, z - 1)
        /\ \A z \in 1..4 : pure.out.pocket[z] = Slot(pure.id, z + 4)
        /\ pure.out.n_board = 5 - occurs(pure.board, 0)
        /\ pure.out.n_pocket = 4 - occurs(pure.pocket, 0)
C10_Witness ==
    /\ pure.pc = "unpacked"
    /\ pure.board = <<13, SKIP_BOARD, 13, 0, 0>>
    /\ pure.out.board = <<SKIP_BOARD, 13, 13, 0, 0>>
    /\ pure.pocket = <<ANY_CARD, 13, ANY_CARD, 0>>
    /\ pure.out.n_pocket = 3

\* fewer than 4 pocket cards or fewer than 3 board cards that are no skip
too_few_cards(id) ==
    unpack64(id).n_pocket < 4 \/ skip_board(unpack64(id).board).n_board < 3

----------------------------------------------------------------------------
(* raygen9: generate, save, and verify when asked to.  The reference table  *)
(* is an input: each combination the verifier compares matches or not.      *)

\* combinations the verifier walks in the model
NumCombos == 60

\* (a variant that verifies whenever test is set)
verify_wanted_test(test, filename7) == test
\* if (test && filename7)
verify_wanted(test, filename7) == test /\ filename7

InitEntry ==
    /\ QueryIdle
    /\ asm = Idle /\ walk = Idle /\ pure = Idle
    /\ \E test \in BOOLEAN, filename7 \in BOOLEAN :
          entry = [pc |-> "start", test |-> test, filename7 |-> filename7,
                   generated |-> FALSE, saved |-> FALSE, verified |-> 0,
                   mismatch |-> FALSE, loaded7 |-> FALSE, ret |-> -1]

Generate ==
    /\ entry.pc = "start"
    /\ entry' = [entry EXCEPT !.pc = "generated", !.generated = TRUE]
    /\ UNCHANGED <<query_vars, asm, walk, pure>>

Save ==
    /\ entry.pc = "generated"
    /\ entry' = [entry EXCEPT !.pc = "saved", !.saved = TRUE]
    /\ UNCHANGED <<query_vars, asm, walk, pure>>

\* test_all_handranks is called and loads the two tables
StartTest ==
    /\ entry.pc = "saved"
    /\ verify_wanted(entry.test, entry.filename7)
    /\ entry' = [entry EXCEPT !.pc = "testing", !.loaded7 = TRUE]
    /\ UNCHANGED <<query_vars, asm, walk, pure>>

\* one combination: the scores are equal, or they differ and the verifier
\* leaves its loops (goto fail) and returns 1
TestCombination ==
    /\ entry.pc = "testing"
    /\ entry.verified < NumCombos
    /\ \E equal \in BOOLEAN :
          entry' = IF equal
                   THEN [entry EXCEPT !.verified = entry.verified + 1]
                   ELSE [entry EXCEPT !.verified = entry.verified + 1,
                                      !.mismatch = TRUE, !.pc = "returned", !.ret = 1]
    /\ UNCHANGED <<query_vars, asm, walk, pure>>

\* all combinations verified: test_all_handranks returns 0
TestDone ==
    /\ entry.pc = "testing"
    /\ entry.verified = NumCombos
    /\ entry' = [entry EXCEPT !.pc = "returned", !.ret = 0]
    /\ UNCHANGED <<query_vars, asm, walk, pure>>

\* no test: return 0
ReturnZero ==
    /\ entry.pc = "saved"
    /\ ~verify_wanted(entry.test, entry.filename7)
    /\ entry' = [entry EXCEPT !.pc = "returned", !.ret = 0]
    /\ UNCHANGED <<query_vars, asm, walk, pure>>

NextEntry == Generate \/ Save \/ StartTest \/ TestCombination \/ TestDone \/ ReturnZero

SpecEntry == InitEntry /\ [][NextEntry]_vars

\* C12: the verifier runs only after the table is generated and saved, and
\* only with a reference path; it compares no combination after a mismatch;
\* raygen9 returns 1 exactly when test is set, a reference path is given and
\* a combination mismatched, 0 otherwise, and the table is saved whenever it
\* returns.
C12_SaveBeforeVerify ==
    /\ (entry.pc = "testing" \/ entry.verified > 0 \/ entry.loaded7) =>
          entry.generated /\ entry.saved /\ entry.test /\ entry.filename7
    /\ entry.saved => entry.generated
    /\ entry.mismatch => entry.pc = "returned"
    /\ entry.pc = "returned" =>
          /\ entry.saved
          /\ entry.ret \in {0, 1}
          /\ (entry.ret = 1) <=> (entry.test /\ entry.filename7 /\ entry.mismatch)
C12_Witness ==
    /\ entry.pc = "returned" /\ entry.ret = 1 /\ entry.saved
    /\ entry.verified = 7

----------------------------------------------------------------------------
(* Chains over free inputs: nine reads from the starting block of an        *)
(* automaton, the flush-rank chain through HR + shift.                      *)

\* the inputs of the chains of the model: the skip and cards of the deck
WalkInputs(aut) ==
    CASE aut = "FS" -> {0, 1, 2, 3, 4, MaxCard}
      [] aut = "FR" -> {0, 1, 3, 4, 7, 8, 11, 12, 15, 16, 19, MaxCard}
      [] aut = "NF" -> {0, 1, 2, 16, MaxCard}

walk_start(tab, aut) ==
    CASE aut = "FS" -> 2 * NumSlots
      [] aut = "FR" -> HR(tab, 1) + NumSlots + 3
      [] aut = "NF" -> HR(tab, 0) + NumSlots

InitWalk ==
    /\ QueryIdle
    /\ asm = Idle /\ entry = Idle /\ pure = Idle
    /\ \E aut \in {"FS", "FR", "NF"}, shift \in 0..3 :
          /\ aut # "FR" => shift = 0
          /\ walk = [pc |-> "walk", aut |-> aut, shift |-> shift, step |-> 0,
                     value |-> walk_start(tables, aut), read |-> 0]

\* one read HR_flush[value + x], HR_flush = HR + shift; a read outside the
\* vector ends the walk
Step ==
    /\ walk.pc = "walk"
    /\ walk.step < 9
    /\ \E x \in WalkInputs(walk.aut) :
          LET idx == walk.value + x + walk.shift
          IN walk' = IF idx >= 0 /\ idx < max_rank(tables)
                     THEN [walk EXCEPT !.step = walk.step + 1, !.read = idx,
                                       !.value = HR(tables, idx)]
                     ELSE [walk EXCEPT !.step = walk.step + 1, !.read = idx,
                                       !.pc = "out_of_bounds"]
    /\ UNCHANGED <<query_vars, asm, entry, pure>>

NextWalk == Step

SpecWalk == InitWalk /\ [][NextWalk]_vars

\* the entry lies in the block of an ID of 8 slots, where the scores are
in_terminal_block(tab, idx) ==
    \E aut \in {"FS", "FR", "NF"} :
        /\ idx >= offset_of(tab, aut) + block_size_of(aut)
        /\ idx < offset_of(tab, aut) + block_size_of(aut) * (Len(ids_of(tab, aut)) + 1)
        /\ count_cards(ids_of(tab, aut)[((idx - offset_of(tab, aut)) \div block_size_of(aut))]) = 8

\* C20: every read of a chain over any inputs and any shift lies in the
\* vector; only the 9th read is in the block of an ID of 8 slots, so that the
\* value of each of the first 8 reads is an index with the room of the next
\* read (a card and the shift) behind it and no score is used as an index.
C20_ChainsStayInTable ==
    walk.pc # "idle" =>
        /\ walk.pc # "out_of_bounds"
        /\ walk.step > 0 => walk.read >= 0 /\ walk.read < max_rank(tables)
        /\ (walk.step > 0 /\ walk.step < 9) =>
              /\ ~in_terminal_block(tables, walk.read)
              /\ walk.value >= 0
              /\ walk.value + MaxCard + walk.shift < max_rank(tables)
C20_Witness ==
    /\ walk.pc = "walk" /\ walk.step = 9 /\ walk.aut = "NF"
    /\ walk.read = max_rank(tables) - 1
    /\ in_terminal_block(tables, walk.read)

====
